---- MODULE Spec2Model ----
(***************************************************************************)
(* Model of the m4 library entry point (m4/src/lib.rs): the argument       *)
(* parser for -D name[=val] and run(), which selects the input, hands a    *)
(* default engine State to lexer::process_streaming and then, depending on *)
(* the result, appends the diversion buffers and the m4wrap queue to       *)
(* stdout and maps the outcome to the returned Result.                     *)
(*                                                                         *)
(* lexer::process_streaming, evaluate::State and the Error type live in    *)
(* modules that are declared by lib.rs (mod lexer; mod evaluate; pub mod   *)
(* error) but whose text is not part of the sources at hand; the           *)
(* process_streaming_* actions and State_default below follow the design   *)
(* document for them.                                                      *)
(*                                                                         *)
(* A byte of engine text is a pair <<kind, k>>: k is the number of the     *)
(* input atom that produced it, so every produced byte is distinguishable. *)
(* Bytes of a command-line argument are one-character strings.             *)
(***************************************************************************)
EXTENDS Integers, Sequences, FiniteSets, TLC

\* ------------------------------------------------------------------------
\* Bounds of the model
\* ------------------------------------------------------------------------

\* number of input atoms process_streaming consumes before end of input
MaxInput == 4

\* number of non-zero diversion buffers held by State
NumBuffers == 2

\* deepest expansion of a self-referential macro that is explored
MaxDepth == 2

\* longest -D argument handed to parse_ref
MaxArgLen == 4

\* ------------------------------------------------------------------------
\* Option<T>, as a sequence of length 0 or 1
\* ------------------------------------------------------------------------

None == << >>

Some(x) == << x >>

\* ------------------------------------------------------------------------
\* ArgumentDefineParser::parse_ref
\* ------------------------------------------------------------------------

ArgBytes == {"n", "=", "v"}

RECURSIVE ByteStrings(_)
ByteStrings(n) ==
    IF n = 0 THEN { << >> }
    ELSE LET shorter == ByteStrings(n - 1)
         IN  shorter \cup { Append(s, b) : s \in {t \in shorter : Len(t) = n - 1}, b \in ArgBytes }

\* the variant that splits at the last '=' (rsplitn)
splitn2_last(bytes) ==
    LET eqs == { i \in 1..Len(bytes) : bytes[i] = "=" }
    IN  IF eqs = {} THEN << bytes >>
        ELSE LET i == CHOOSE j \in eqs : \A l \in eqs : l <= j
             IN  << SubSeq(bytes, 1, i - 1), SubSeq(bytes, i + 1, Len(bytes)) >>

\* value_bytes.splitn(2, |b| *b == b'='): at most two pieces, cut at the
\* first '='; the separator itself belongs to neither piece
splitn2(bytes) ==
    LET eqs == { i \in 1..Len(bytes) : bytes[i] = "=" }
    IN  IF eqs = {} THEN << bytes >>
        ELSE LET i == CHOOSE j \in eqs : \A l \in eqs : j <= l
             IN  << SubSeq(bytes, 1, i - 1), SubSeq(bytes, i + 1, Len(bytes)) >>

parse_ref(value) ==
    LET split == splitn2(value)
        name  == split[1]
        val   == IF Len(split) >= 2 THEN Some(split[2]) ELSE None
    IN  [name |-> name, value |-> val]

\* ------------------------------------------------------------------------
\* Args
\* ------------------------------------------------------------------------

NameF == << "f" >>

NameDivert == << "d", "i", "v", "e", "r", "t" >>

MacroNames == { NameF, NameDivert }

\* Args as clap hands it to run(): the fields run() or the claims look at
ArgsInputs ==
    [ files         : { << >>, << "readable" >>, << "missing" >>, << "missing", "readable" >> },
      define        : { << >>, << parse_ref(<< "f", "=", "x" >>) >> },
      undefine      : { << >>, << NameDivert >> },
      nesting_limit : { None, Some(1) } ]

\* ------------------------------------------------------------------------
\* evaluate::State
\* ------------------------------------------------------------------------

\* State::default(): the built-in catalog only, no user definition, empty
\* buffers, output to diversion 0, no nesting bound
State_default ==
    [ macros        |-> [ m \in MacroNames |-> IF m = NameDivert THEN << "Builtin" >> ELSE << >> ],
      divert_buffers |-> [ i \in 1..NumBuffers |-> << >> ],
      divert_number |-> 0,
      m4wrap        |-> << >>,
      exit_error    |-> FALSE,
      nesting_limit |-> 0,
      depth         |-> 0 ]

\* lib.rs lines 177 and 187: State::default(), whatever the arguments are
initial_state(a) == State_default

VARIABLES
    pc,          \* position in run(): start, reading, expanding, returned, finalizing, done
    args,        \* the Args value
    state,       \* the engine State owned by process_streaming, then by run()
    nread,       \* atoms consumed from the input so far
    procResult,  \* what process_streaming returned
    stdout,      \* bytes accepted by the final sink
    stderr,      \* bytes accepted by the diagnostic sink
    procOut,     \* the contents of stdout when process_streaming returned
    flushLog,    \* the write_all calls run() made on stdout, in order
    pos,         \* index of the next buffer or wrap entry run() writes
    result,      \* what run() returned
    raw,         \* the argument given to parse_ref
    parsed       \* Option<ArgumentDefine>: the value parse_ref returned

vars == << pc, args, state, nread, procResult, stdout, stderr, procOut, flushLog,
           pos, result, raw, parsed >>

\* ------------------------------------------------------------------------
\* Result values
\* ------------------------------------------------------------------------

NoResult == [tag |-> "none", code |-> 0]

Ok == [tag |-> "Ok", code |-> 0]

\* Error::Exit(code)
ErrExit(code) == [tag |-> "Exit", code |-> code]

\* every other Error variant: Lex (unterminated quote or comment),
\* Nesting (nesting limit exceeded), Io
Err(kind) == [tag |-> kind, code |-> 0]

\* codes an explicit exit operation asks for in the explored inputs
ExitCodes == {0, 2}

\* the process exit code the caller of run() derives from its result
ExitStatus(r) ==
    IF r.tag = "Ok" THEN 0
    ELSE IF r.tag = "Exit" THEN r.code
    ELSE 1

\* ------------------------------------------------------------------------
\* Initial states
\* ------------------------------------------------------------------------

Init ==
    /\ pc = "start"
    /\ args \in ArgsInputs
    /\ state = State_default
    /\ nread = 0
    /\ procResult = NoResult
    /\ stdout = << >>
    /\ stderr = << >>
    /\ procOut = << >>
    /\ flushLog = << >>
    /\ pos = 1
    /\ result = NoResult
    /\ raw = << >>
    /\ parsed = None

\* ------------------------------------------------------------------------
\* lexer::process_streaming with evaluate::evaluate
\* ------------------------------------------------------------------------

\* the State after `bytes` were written to the active diversion
buffered(st, bytes) ==
    IF st.divert_number = 0 THEN st
    ELSE [st EXCEPT !.divert_buffers[st.divert_number] = @ \o bytes]

\* the final sink after `bytes` were written to the active diversion:
\* diversion 0 is the sink itself
sunk(st, out, bytes) ==
    IF st.divert_number = 0 THEN out \o bytes ELSE out

\* process_streaming hands its value back to run()
returns(r, out) ==
    /\ pc' = "returned"
    /\ procResult' = r
    /\ procOut' = out

\* plain text, a quoted literal or a comment span goes to the active diversion
process_streaming_text ==
    /\ pc = "reading"
    /\ nread < MaxInput
    /\ LET bytes == << << "t", nread + 1 >> >>
       IN  /\ state' = buffered(state, bytes)
           /\ stdout' = sunk(state, stdout, bytes)
    /\ nread' = nread + 1
    /\ UNCHANGED << pc, args, stderr, procResult, procOut, flushLog, pos, result, raw, parsed >>

\* divert(n): later output goes to buffer n
process_streaming_divert(n) ==
    /\ pc = "reading"
    /\ nread < MaxInput
    /\ state.macros[NameDivert] # << >>
    /\ state' = [state EXCEPT !.divert_number = n]
    /\ nread' = nread + 1
    /\ UNCHANGED << pc, args, stdout, stderr, procResult, procOut, flushLog, pos, result, raw, parsed >>

\* undivert(n): buffer n is appended to the active diversion, then cleared
process_streaming_undivert(n) ==
    /\ pc = "reading"
    /\ nread < MaxInput
    /\ n # state.divert_number
    /\ LET bytes == state.divert_buffers[n]
           moved == buffered(state, bytes)
       IN  /\ state' = [moved EXCEPT !.divert_buffers[n] = << >>]
           /\ stdout' = sunk(state, stdout, bytes)
    /\ nread' = nread + 1
    /\ UNCHANGED << pc, args, stderr, procResult, procOut, flushLog, pos, result, raw, parsed >>

\* m4wrap(text): text is queued for the end of the run; the text is either
\* literal ("w") or itself a call of m4wrap ("m4wrap") that queues a literal
process_streaming_m4wrap(kind) ==
    /\ pc = "reading"
    /\ nread < MaxInput
    /\ state' = [state EXCEPT !.m4wrap = Append(@, << << kind, nread + 1 >> >>)]
    /\ nread' = nread + 1
    /\ UNCHANGED << pc, args, stdout, stderr, procResult, procOut, flushLog, pos, result, raw, parsed >>

\* define(f, body): body is literal text or a call of f itself
process_streaming_define(body) ==
    /\ pc = "reading"
    /\ nread < MaxInput
    /\ state' = [state EXCEPT !.macros[NameF] = << body >>]
    /\ nread' = nread + 1
    /\ UNCHANGED << pc, args, stdout, stderr, procResult, procOut, flushLog, pos, result, raw, parsed >>

\* one level of expansion of a macro whose body calls the macro again
expand_self(st) ==
    LET d == st.depth + 1
    IN  IF st.nesting_limit > 0 /\ d > st.nesting_limit
        THEN /\ state' = st
             /\ returns(Err("Nesting"), stdout)
        ELSE /\ state' = [st EXCEPT !.depth = d]
             /\ pc' = "expanding"
             /\ UNCHANGED << procResult, procOut >>

\* the identifier f: verbatim when undefined, else its body is substituted
\* and rescanned
process_streaming_invoke ==
    /\ pc = "reading"
    /\ nread < MaxInput
    /\ nread' = nread + 1
    /\ LET stack == state.macros[NameF]
       IN  IF stack = << >> \/ stack[Len(stack)] = "text"
           THEN LET bytes == << << IF stack = << >> THEN "name" ELSE "t", nread + 1 >> >>
                IN  /\ state' = buffered(state, bytes)
                    /\ stdout' = sunk(state, stdout, bytes)
                    /\ UNCHANGED << pc, procResult, procOut >>
           ELSE /\ expand_self(state)
                /\ UNCHANGED stdout
    /\ UNCHANGED << args, stderr, flushLog, pos, result, raw, parsed >>

\* rescanning the substituted body meets the call of f again
process_streaming_rescan ==
    /\ pc = "expanding"
    /\ state.depth < MaxDepth
    /\ expand_self(state)
    /\ UNCHANGED << args, nread, stdout, stderr, flushLog, pos, result, raw, parsed >>

\* m4exit(code)
process_streaming_m4exit(code) ==
    /\ pc = "reading"
    /\ returns(ErrExit(code), stdout)
    /\ UNCHANGED << args, state, nread, stdout, stderr, flushLog, pos, result, raw, parsed >>

\* an error that is reported and remembered in State.exit_error; scanning stops
process_streaming_exit_flag ==
    /\ pc = "reading"
    /\ state' = [state EXCEPT !.exit_error = TRUE]
    /\ returns(Ok, stdout)
    /\ UNCHANGED << args, nread, stdout, stderr, flushLog, pos, result, raw, parsed >>

\* unterminated quote or comment at end of input
process_streaming_lex_error ==
    /\ pc = "reading"
    /\ returns(Err("Lex"), stdout)
    /\ UNCHANGED << args, state, nread, stdout, stderr, flushLog, pos, result, raw, parsed >>

\* the final sink refuses a write made for diversion 0
process_streaming_sink_error ==
    /\ pc = "reading"
    /\ nread < MaxInput
    /\ state.divert_number = 0
    /\ returns(Err("Io"), stdout)
    /\ UNCHANGED << args, state, nread, stdout, stderr, flushLog, pos, result, raw, parsed >>

\* end of input
process_streaming_eof ==
    /\ pc = "reading"
    /\ returns(Ok, stdout)
    /\ UNCHANGED << args, state, nread, stdout, stderr, flushLog, pos, result, raw, parsed >>

\* ------------------------------------------------------------------------
\* run()
\* ------------------------------------------------------------------------

\* lines 175-184: a first file that opens: process_streaming(State::default(), ..)
run_process_file ==
    /\ pc = "start"
    /\ args.files # << >>
    /\ Head(args.files) = "readable"
    /\ state' = initial_state(args)
    /\ pc' = "reading"
    /\ UNCHANGED << args, nread, procResult, stdout, stderr, procOut, flushLog, pos, result, raw, parsed >>

\* the variant that goes on to process_streaming although the open failed
run_open_error_ignored ==
    /\ pc = "start"
    /\ args.files # << >>
    /\ Head(args.files) = "missing"
    /\ state' = initial_state(args)
    /\ pc' = "reading"
    /\ UNCHANGED << args, nread, procResult, stdout, stderr, procOut, flushLog, pos, result, raw, parsed >>

\* line 179: File::open(file_path)? fails; run() returns before the call
run_open_error ==
    /\ pc = "start"
    /\ args.files # << >>
    /\ Head(args.files) = "missing"
    /\ result' = Err("Io")
    /\ pc' = "done"
    /\ UNCHANGED << args, state, nread, procResult, stdout, stderr, procOut, flushLog, pos, raw, parsed >>

\* lines 185-194: no file argument: standard input
run_process_stdin ==
    /\ pc = "start"
    /\ args.files = << >>
    /\ state' = initial_state(args)
    /\ pc' = "reading"
    /\ UNCHANGED << args, nread, procResult, stdout, stderr, procOut, flushLog, pos, result, raw, parsed >>

\* line 198: Ok(state)
run_match_ok ==
    /\ pc = "returned"
    /\ procResult.tag = "Ok"
    /\ pc' = "finalizing"
    /\ pos' = 1
    /\ UNCHANGED << args, state, nread, procResult, stdout, stderr, procOut, flushLog, result, raw, parsed >>

\* the variant that visits the buffers from the highest id down
buffer_at_reversed(st, p) == NumBuffers + 1 - p

\* the variant that visits buffer 1 every time
buffer_at_first(st, p) == 1

\* `for buffer in state.divert_buffers`: the p-th buffer visited is buffer p
buffer_at(st, p) == p

\* the number of write_all calls of the two loops of lines 199-205
entries_to_write(st) == NumBuffers + Len(st.m4wrap)

\* what the p-th write_all call of lines 199-205 writes
write_at(st, p) ==
    IF p <= NumBuffers
    THEN [kind |-> "divert", id |-> buffer_at(st, p), data |-> st.divert_buffers[buffer_at(st, p)]]
    ELSE [kind |-> "wrap", id |-> p - NumBuffers, data |-> st.m4wrap[p - NumBuffers]]

\* lines 201 and 204: stdout.write_all(..) succeeds
run_write_all ==
    /\ pc = "finalizing"
    /\ pos <= entries_to_write(state)
    /\ LET w == write_at(state, pos)
       IN  /\ stdout' = stdout \o w.data
           /\ flushLog' = Append(flushLog, w)
    /\ pos' = pos + 1
    /\ UNCHANGED << pc, args, state, nread, procResult, stderr, procOut, result, raw, parsed >>

\* lines 201 and 204: stdout.write_all(..)? fails after the sink took only a
\* proper prefix of the bytes; run() returns the I/O error
run_write_all_error ==
    /\ pc = "finalizing"
    /\ pos <= entries_to_write(state)
    /\ LET w == write_at(state, pos)
       IN  \E n \in 0..(Len(w.data) - 1) :
              /\ stdout' = stdout \o SubSeq(w.data, 1, n)
              /\ flushLog' = Append(flushLog, [w EXCEPT !.data = SubSeq(w.data, 1, n)])
    /\ result' = Err("Io")
    /\ pc' = "done"
    /\ UNCHANGED << args, state, nread, procResult, stderr, procOut, pos, raw, parsed >>

\* the variant that reports success although State.exit_error is set
status_of_always_ok(st) == Ok

\* lines 207-211
status_of(st) == IF st.exit_error THEN ErrExit(1) ELSE Ok

run_status ==
    /\ pc = "finalizing"
    /\ pos > entries_to_write(state)
    /\ result' = status_of(state)
    /\ pc' = "done"
    /\ UNCHANGED << args, state, nread, procResult, stdout, stderr, procOut, flushLog, pos, raw, parsed >>

\* line 213: Err(error @ Error::Exit(_)) => Err(error)
run_match_exit ==
    /\ pc = "returned"
    /\ procResult.tag = "Exit"
    /\ result' = procResult
    /\ pc' = "done"
    /\ UNCHANGED << args, state, nread, procResult, stdout, stderr, procOut, flushLog, pos, raw, parsed >>

\* lines 214-217: any other error is printed on stderr and returned
run_match_error ==
    /\ pc = "returned"
    /\ procResult.tag \notin {"Ok", "Exit"}
    /\ stderr' = Append(stderr, << "msg", procResult.tag >>)
    /\ result' = procResult
    /\ pc' = "done"
    /\ UNCHANGED << args, state, nread, procResult, stdout, procOut, flushLog, pos, raw, parsed >>

\* line 215: stderr.write_all(..)? fails; the I/O error replaces the error
run_match_error_write_error ==
    /\ pc = "returned"
    /\ procResult.tag \notin {"Ok", "Exit"}
    /\ result' = Err("Io")
    /\ pc' = "done"
    /\ UNCHANGED << args, state, nread, procResult, stdout, stderr, procOut, flushLog, pos, raw, parsed >>

Next ==
    \/ run_process_file
    \/ run_open_error
    \/ run_process_stdin
    \/ process_streaming_text
    \/ \E n \in 0..NumBuffers : process_streaming_divert(n)
    \/ \E n \in 1..NumBuffers : process_streaming_undivert(n)
    \/ \E kind \in {"w", "m4wrap"} : process_streaming_m4wrap(kind)
    \/ \E body \in {"text", "self"} : process_streaming_define(body)
    \/ process_streaming_invoke
    \/ process_streaming_rescan
    \/ \E code \in ExitCodes : process_streaming_m4exit(code)
    \/ process_streaming_exit_flag
    \/ process_streaming_lex_error
    \/ process_streaming_sink_error
    \/ process_streaming_eof
    \/ run_match_ok
    \/ run_write_all
    \/ run_write_all_error
    \/ run_status
    \/ run_match_exit
    \/ run_match_error
    \/ run_match_error_write_error

Spec == Init /\ [][Next]_vars

\* ------------------------------------------------------------------------
\* parse_ref on its own: every argument up to MaxArgLen bytes
\* ------------------------------------------------------------------------

InitParse ==
    /\ pc = "parse"
    /\ args = [files |-> << >>, define |-> << >>, undefine |-> << >>, nesting_limit |-> None]
    /\ state = State_default
    /\ nread = 0
    /\ procResult = NoResult
    /\ stdout = << >>
    /\ stderr = << >>
    /\ procOut = << >>
    /\ flushLog = << >>
    /\ pos = 1
    /\ result = NoResult
    /\ raw \in ByteStrings(MaxArgLen)
    /\ parsed = None

\* clap calls parse_ref once for the argument and pushes the value on Args.define
parse_argument ==
    /\ pc = "parse"
    /\ parsed' = Some(parse_ref(raw))
    /\ args' = [args EXCEPT !.define = Append(@, parse_ref(raw))]
    /\ pc' = "parsed"
    /\ UNCHANGED << state, nread, procResult, stdout, stderr, procOut, flushLog, pos, result, raw >>

NextParse == parse_argument

SpecParse == InitParse /\ [][NextParse]_vars

\* ------------------------------------------------------------------------
\* Vocabulary of the properties
\* ------------------------------------------------------------------------

RECURSIVE Flatten(_)
Flatten(seqs) == IF seqs = << >> THEN << >> ELSE Head(seqs) \o Flatten(Tail(seqs))

Bytes(seq) == { seq[i] : i \in 1..Len(seq) }

Count(seq, b) == Cardinality({ i \in 1..Len(seq) : seq[i] = b })

IsWrapByte(b) == b[1] \in {"w", "m4wrap"}

\* the buffers of State in ascending id order
BuffersAscending == [ i \in 1..NumBuffers |-> state.divert_buffers[i] ]

\* bytes that sit in a non-zero diversion buffer or in the wrap queue
PendingBytes ==
    UNION { Bytes(state.divert_buffers[i]) : i \in 1..NumBuffers }
        \cup UNION { Bytes(state.m4wrap[i]) : i \in 1..Len(state.m4wrap) }

\* Finalizing happened: everything pending has reached the final sink
Finalized == PendingBytes \subseteq Bytes(stdout)

\* run() went through both loops of the Ok arm and set its result (lines 207-211)
FlushComplete == pc = "done" /\ procResult.tag = "Ok" /\ pos > entries_to_write(state)

\* a write_all of the Ok arm failed
FlushFailed == pc = "done" /\ procResult.tag = "Ok" /\ pos <= entries_to_write(state)

\* the text the wrap queue yields when every entry is processed again as
\* input and entries queued meanwhile are drained too: a literal is emitted,
\* a call of m4wrap queues its literal behind the entries already waiting
RECURSIVE DrainedToFixpoint(_)
DrainedToFixpoint(queue) ==
    IF queue = << >> THEN << >>
    ELSE LET entry == Head(queue)
         IN  IF entry[1][1] = "m4wrap"
             THEN DrainedToFixpoint(Tail(queue) \o << << << "w", entry[1][2] >> >> >>)
             ELSE entry \o DrainedToFixpoint(Tail(queue))

\* ------------------------------------------------------------------------
\* C1
\* ------------------------------------------------------------------------

\* C1: once process_streaming returned Ok, run() writes the non-zero
\* diversion buffers in strictly ascending id order; a wrap entry is written
\* only after every buffer was written in full; no wrap byte precedes any
\* other byte on stdout; and when both loops are through, every buffer and
\* every wrap entry has been written.
DiversionsAscendingThenWraps ==
    /\ flushLog # << >> => procResult.tag = "Ok"
    /\ \A i, j \in 1..Len(flushLog) :
          i < j =>
            /\ flushLog[i].kind = "wrap" => flushLog[j].kind = "wrap"
            /\ (flushLog[i].kind = "divert" /\ flushLog[j].kind = "divert")
                  => flushLog[i].id < flushLog[j].id
    /\ (\E i \in 1..Len(flushLog) : flushLog[i].kind = "wrap")
          => \A b \in 1..NumBuffers :
                \E j \in 1..Len(flushLog) :
                   flushLog[j] = [kind |-> "divert", id |-> b, data |-> state.divert_buffers[b]]
    /\ \A i, j \in 1..Len(stdout) :
          (i < j /\ IsWrapByte(stdout[i])) => IsWrapByte(stdout[j])
    /\ procResult.tag = "Ok" => stdout = procOut \o Flatten([ i \in 1..Len(flushLog) |-> flushLog[i].data ])
    /\ FlushComplete =>
          /\ \A b \in 1..NumBuffers : \E j \in 1..Len(flushLog) :
                flushLog[j].kind = "divert" /\ flushLog[j].id = b
          /\ \A w \in 1..Len(state.m4wrap) : \E j \in 1..Len(flushLog) :
                flushLog[j] = [kind |-> "wrap", id |-> w, data |-> state.m4wrap[w]]

DiversionsAscendingThenWrapsWitness ==
    /\ pc = "done"
    /\ result = Ok
    /\ state.divert_buffers[1] # << >>
    /\ state.divert_buffers[2] # << >>
    /\ Len(flushLog) >= 2

\* ------------------------------------------------------------------------
\* C2
\* ------------------------------------------------------------------------

\* C2: when process_streaming fails with a lex or nesting-limit error,
\* the diversion buffers and the wrap queue have reached stdout by the time
\* run() returns.
FinalizingAfterFatalError ==
    (pc = "done" /\ procResult.tag \in {"Lex", "Nesting"}) => Finalized

\* ------------------------------------------------------------------------
\* C3
\* ------------------------------------------------------------------------

\* C3: on every run that ends through an explicit exit, be it State.exit_error
\* in a returned State or Error::Exit, and on which no I/O failed, the
\* diversion buffers and the wrap queue have reached stdout by the time run()
\* returns.
FinalizingAfterExit ==
    ( /\ pc = "done"
      /\ result.tag # "Io"
      /\ \/ procResult.tag = "Exit"
         \/ procResult.tag = "Ok" /\ state.exit_error )
    => Finalized

\* ------------------------------------------------------------------------
\* C4
\* ------------------------------------------------------------------------

\* C4: when run() is through its Ok arm, the bytes it wrote for the wrap
\* queue are the bytes the queue yields when drained to fixpoint, every entry
\* processed again.
WrapQueueDrainedToFixpoint ==
    FlushComplete =>
        stdout = procOut \o Flatten(BuffersAscending) \o DrainedToFixpoint(state.m4wrap)

\* ------------------------------------------------------------------------
\* C5
\* ------------------------------------------------------------------------

\* C5 as stated: run() returns Ok exactly when process_streaming returned Ok
\* with exit_error unset; a requested code is returned unchanged; in every
\* other case the exit status is 1.
ExitStatusMapping ==
    pc = "done" =>
        /\ (result = Ok) <=> (procResult = Ok /\ ~state.exit_error)
        /\ procResult.tag = "Exit" => result = procResult
        /\ (result # Ok /\ procResult.tag # "Exit") => ExitStatus(result) = 1

\* C5 as amended: run() returns Ok exactly when process_streaming returned Ok
\* with exit_error unset and no write of a diversion buffer or wrap entry to
\* stdout failed; a requested code is returned unchanged; in every other case
\* the exit status is 1.
ExitStatusMappingUnlessWriteFails ==
    pc = "done" =>
        /\ (result = Ok) <=> (procResult = Ok /\ ~state.exit_error /\ ~FlushFailed)
        /\ procResult.tag = "Exit" => (result = procResult /\ ExitStatus(result) = procResult.code)
        /\ (result # Ok /\ procResult.tag # "Exit") => ExitStatus(result) = 1

ExitStatusMappingWitness ==
    /\ pc = "done"
    /\ procResult = Ok
    /\ state.exit_error
    /\ result = ErrExit(1)

\* ------------------------------------------------------------------------
\* C6
\* ------------------------------------------------------------------------

\* C6: when process_streaming starts reading, every name of Args.define has a
\* user definition on top of its stack unless Args.undefine names it too, and
\* every name of Args.undefine has no definition at all.
TableSeededFromArgs ==
    (pc = "reading" /\ nread = 0) =>
        /\ \A i \in 1..Len(args.undefine) : state.macros[args.undefine[i]] = << >>
        /\ \A i \in 1..Len(args.define) :
              LET stack == state.macros[args.define[i].name]
              IN  \/ \E j \in 1..Len(args.undefine) : args.undefine[j] = args.define[i].name
                  \/ stack # << >> /\ stack[Len(stack)] # "Builtin"

\* ------------------------------------------------------------------------
\* C7
\* ------------------------------------------------------------------------

\* C7: with Args.nesting_limit = N > 0 the expansion depth never exceeds N.
DepthWithinNestingLimit ==
    (args.nesting_limit # None /\ args.nesting_limit[1] > 0)
        => state.depth <= args.nesting_limit[1]

\* ------------------------------------------------------------------------
\* C8
\* ------------------------------------------------------------------------

\* C8: no byte is on stdout twice; and when run() is through its Ok arm,
\* stdout is what diversion 0 received while the input was read, followed by
\* the contents of the non-zero buffers, so that every byte still diverted at
\* end of input is on stdout exactly once, behind every byte written to
\* diversion 0, and no byte written to diversion 0 is in a buffer.
DivertedTextExactlyOnce ==
    /\ \A b \in Bytes(stdout) : Count(stdout, b) = 1
    /\ FlushComplete =>
          /\ stdout = procOut \o Flatten(BuffersAscending) \o Flatten(state.m4wrap)
          /\ \A i \in 1..NumBuffers : \A b \in Bytes(state.divert_buffers[i]) :
                /\ Count(stdout, b) = 1
                /\ b \notin Bytes(procOut)
                /\ \A k \in 1..Len(stdout) : stdout[k] = b => k > Len(procOut)

DivertedTextExactlyOnceWitness ==
    /\ FlushComplete
    /\ procOut # << >>
    /\ state.divert_buffers[2] # << >>
    /\ state.divert_number = 0

\* ------------------------------------------------------------------------
\* C9
\* ------------------------------------------------------------------------

\* C9: when the first file cannot be opened, process_streaming is never
\* entered, nothing is written to stdout or stderr, and run() returns the
\* I/O error.
OpenErrorSkipsEverything ==
    (args.files # << >> /\ Head(args.files) = "missing") =>
        /\ pc \in {"start", "done"}
        /\ procResult = NoResult
        /\ nread = 0
        /\ stdout = << >>
        /\ stderr = << >>
        /\ flushLog = << >>
        /\ pc = "done" => result = Err("Io")

OpenErrorSkipsEverythingWitness ==
    /\ pc = "done"
    /\ args.files = << "missing", "readable" >>
    /\ result = Err("Io")

\* ------------------------------------------------------------------------
\* C10
\* ------------------------------------------------------------------------

\* C10: parse_ref cuts at the first '=' only: without '=' the name is the
\* whole argument and there is no value; otherwise the name holds no '=', the
\* value is present and name, '=', value give back the argument.
ParseRefSplitsAtFirstEquals ==
    parsed # None =>
        LET d == parsed[1]
        IN  IF \A i \in 1..Len(raw) : raw[i] # "="
            THEN d.name = raw /\ d.value = None
            ELSE /\ \A i \in 1..Len(d.name) : d.name[i] # "="
                 /\ d.value # None
                 /\ d.name \o << "=" >> \o d.value[1] = raw

ParseRefSplitsAtFirstEqualsWitness ==
    /\ parsed # None
    /\ parsed[1].value # None
    /\ \E i \in 1..Len(parsed[1].value[1]) : parsed[1].value[1][i] = "="
    /\ args.define = << parsed[1] >>

====
